---- MODULE Spec2Model ----
(***************************************************************************)
(* A model of connector/dremio_connector.py: the DremioConnector source    *)
(* (database enumeration, the per-database switch of engine and caches,    *)
(* the translation of schema names between Dremio's "<space>.<folder>"     *)
(* form and the catalog's schema names) and get_connection_url.            *)
(*                                                                         *)
(* A Python str is a sequence of one-character strings; None is NULL.      *)
(***************************************************************************)
EXTENDS Integers, Sequences, FiniteSets, TLC

VARIABLES
    \* ---- DremioConnector instance ----
    database,          \* self.database: NULL or the selected database name
    engine,            \* self.engine: the Engine object in use
    connection_map,    \* self._connection_map
    inspector_map,     \* self._inspector_map
    \* ---- schema-name translation: the value flowing through calls ----
    schema_name,       \* the schema name a caller (or the engine) supplies next
    calls,             \* the calls made so far: <<[op, arg, out]>>
    \* ---- get_database_names generator and its environment ----
    schemata,          \* INFORMATION_SCHEMA.SCHEMATA rows, in engine order
    filterPattern,     \* source_config.databaseFilterPattern
    useFqnForFiltering,\* source_config.useFqnForFiltering
    pc,                \* position of the get_database_names generator
    rows,              \* rows of get_database_names_raw not yet iterated
    yielded,           \* names yielded to the consumer, in order
    status_filtered,   \* self.status: "filtered" events, in order
    status_warnings,   \* self.status: "warning" events, in order
    log,               \* logger records, in order
    gen_exc,           \* exception that left get_database_names, or "none"
    \* ---- get_connection_url ----
    connectionOptions, \* connection.connectionOptions.root
    set_order,         \* this process's iteration order of a set of str
    url_result,        \* outcome of the last get_connection_url call
    url_history        \* every outcome get_connection_url produced so far

instanceVars == <<database, engine, connection_map, inspector_map>>
namesVars == <<schema_name, calls>>
discVars == <<schemata, filterPattern, useFqnForFiltering, pc, rows, yielded,
              status_filtered, status_warnings, log, gen_exc>>
urlVars == <<connectionOptions, set_order, url_result, url_history>>
vars == <<instanceVars, namesVars, discVars, urlVars>>

-----------------------------------------------------------------------------
(* Bounds *)

\* longest schema name drawn as an input
MaxLen == 5
\* longest chain of translator calls on one value
MaxCalls == 2
\* most rows INFORMATION_SCHEMA.SCHEMATA holds
MaxSchemata == 4

-----------------------------------------------------------------------------
(* Python values *)

\* None
NULL == <<"None">>

Alphabet == {"a", "_", ".", " "}

\* every str of at most n characters
Strings(n) == UNION {[1..k -> Alphabet] : k \in 0..n}

\* str.startswith(prefix)
startswith(s, prefix) ==
    /\ Len(prefix) <= Len(s)
    /\ SubSeq(s, 1, Len(prefix)) = prefix

\* s[n:]
slice_from(s, n) == IF n >= Len(s) THEN <<>> ELSE SubSeq(s, n + 1, Len(s))

\* str.isspace() of one character
IsSpace(c) == c = " "

RECURSIVE lstrip(_)
lstrip(s) == IF s # <<>> /\ IsSpace(Head(s)) THEN lstrip(Tail(s)) ELSE s

RECURSIVE rstrip(_)
rstrip(s) ==
    IF s # <<>> /\ IsSpace(s[Len(s)]) THEN rstrip(SubSeq(s, 1, Len(s) - 1)) ELSE s

\* str.strip()
strip(s) == rstrip(lstrip(s))

\* the outcome of a call: a returned value, or a raised exception
Return(v) == [exc |-> "none", value |-> v]
Raise(e) == [exc |-> e, value |-> NULL]
\* an exception whose message carries one argument
RaiseWith(e, arg) == [exc |-> e, value |-> arg]

-----------------------------------------------------------------------------
(* DremioConnector._remove_database_from_schema_name and                   *)
(* DremioConnector._add_database_to_schema_name                            *)

\* a slip in the guard: the prefix is removed without testing for it
remove_unguarded(name) ==
    IF database # NULL
    THEN IF name = NULL
         THEN Raise("AttributeError")
         ELSE IF name = database
              THEN Return(name)
              ELSE Return(slice_from(name, Len(database) + 1))
    ELSE Return(name)

\* a slip in the slice: the dot after the database name is kept
remove_keeps_dot(name) ==
    IF database # NULL
    THEN IF name = NULL
         THEN Raise("AttributeError")
         ELSE IF ~startswith(name, database) \/ name = database
              THEN Return(name)
              ELSE Return(slice_from(name, Len(database)))
    ELSE Return(name)

\* `not schema_name.startswith(self.database)` is evaluated first, so a None
\* schema_name raises AttributeError before `schema_name is None` is reached.
_remove_database_from_schema_name(name) ==
    IF database # NULL
    THEN IF name = NULL
         THEN Raise("AttributeError")
         ELSE IF ~startswith(name, database) \/ name = NULL \/ name = database
              THEN Return(name)
              ELSE Return(slice_from(name, Len(database) + 1))
    ELSE Return(name)

\* a slip in the concatenation: the operands are swapped
add_swapped(name) ==
    IF database # NULL
    THEN IF name = NULL \/ strip(name) = <<>>
         THEN Return(database)
         ELSE Return(name \o <<".">> \o database)
    ELSE Return(name)

_add_database_to_schema_name(name) ==
    IF database # NULL
    THEN IF name = NULL \/ strip(name) = <<>>
         THEN Return(database)
         ELSE Return(database \o <<".">> \o name)
    ELSE Return(name)

-----------------------------------------------------------------------------
(* The engine's LIKE operator, as the two catalog queries use it *)

\* s LIKE p: "%" matches any run of characters, "_" any one character
RECURSIVE LikeMatch(_, _)
LikeMatch(p, s) ==
    IF p = <<>>
    THEN s = <<>>
    ELSE IF Head(p) = "%"
         THEN LikeMatch(Tail(p), s) \/ (s # <<>> /\ LikeMatch(p, Tail(s)))
         ELSE /\ s # <<>>
              /\ (Head(p) = "_" \/ Head(p) = Head(s))
              /\ LikeMatch(Tail(p), Tail(s))

\* WHERE SCHEMA_NAME LIKE '{database_name}.%'
DREMIO_GET_SCHEMAS(database_name, row) ==
    LikeMatch(database_name \o <<".", "%">>, row)

-----------------------------------------------------------------------------
(* State after construction *)

\* __init__: super().__init__ builds the first engine; self.database = None
InitInstance ==
    /\ database = NULL
    /\ engine = [id |-> 0, database_name |-> NULL]
    /\ connection_map = {}
    /\ inspector_map = {}

InitNames ==
    /\ schema_name = NULL
    /\ calls = <<>>

InitDiscovery ==
    /\ schemata = <<>>
    /\ filterPattern = {}
    /\ useFqnForFiltering = FALSE
    /\ pc = "idle"
    /\ rows = <<>>
    /\ yielded = <<>>
    /\ status_filtered = <<>>
    /\ status_warnings = <<>>
    /\ log = <<>>
    /\ gen_exc = "none"

InitUrl ==
    /\ connectionOptions = <<>>
    /\ set_order = <<>>
    /\ url_result = [exc |-> "not_called", value |-> NULL]
    /\ url_history = {}

-----------------------------------------------------------------------------
(* Schema-name translation: direct calls, schema enumeration, delegation   *)

\* the databases a session may have selected: none, "a", "a_"
DatabaseChoices == {NULL, <<"a">>, <<"a", "_">>}

Call(op, arg, out) == [op |-> op, arg |-> arg, out |-> out]

LastCall == calls[Len(calls)]

\* the calls so far are direct calls of the two translation methods
DirectChain ==
    \A i \in 1..Len(calls) :
        calls[i].op \in {"_remove_database_from_schema_name",
                         "_add_database_to_schema_name"}

\* a call on the current value; a raised exception ends the chain
Apply(op, out) ==
    /\ calls' = Append(calls, Call(op, schema_name, out))
    /\ schema_name' = IF out.exc = "none" THEN out.value ELSE schema_name
    /\ UNCHANGED <<instanceVars, discVars, urlVars>>

Chainable ==
    /\ Len(calls) < MaxCalls
    /\ DirectChain
    /\ calls # <<>> => LastCall.out.exc = "none"

CallRemove ==
    /\ Chainable
    /\ Apply("_remove_database_from_schema_name",
             _remove_database_from_schema_name(schema_name))

CallAdd ==
    /\ Chainable
    /\ Apply("_add_database_to_schema_name",
             _add_database_to_schema_name(schema_name))

\* One row of get_raw_database_schema_names: the row comes from
\* DREMIO_GET_SCHEMAS when a database is selected, from
\* inspector.get_schema_names() otherwise, and is yielded stripped.
get_raw_database_schema_names ==
    /\ calls = <<>>
    /\ schema_name # NULL
    /\ database # NULL => DREMIO_GET_SCHEMAS(database, schema_name)
    /\ Apply("get_raw_database_schema_names",
             _remove_database_from_schema_name(schema_name))

\* the four wrappers hand _add_database_to_schema_name(schema_name) to super()
Delegate(op) ==
    /\ calls # <<>>
    /\ LastCall.op = "get_raw_database_schema_names"
    /\ Apply(op, _add_database_to_schema_name(schema_name))

get_columns_and_constraints == Delegate("get_columns_and_constraints")

get_schema_definition == Delegate("get_schema_definition")

query_table_names_and_types == Delegate("query_table_names_and_types")

query_view_names_and_types == Delegate("query_view_names_and_types")

InitTranslate ==
    /\ database \in DatabaseChoices
    /\ engine = [id |-> 0, database_name |-> database]
    /\ connection_map = {}
    /\ inspector_map = {}
    /\ schema_name \in Strings(MaxLen) \cup {NULL}
    /\ calls = <<>>
    /\ InitDiscovery
    /\ InitUrl

NextTranslate ==
    \/ CallRemove
    \/ CallAdd
    \/ get_raw_database_schema_names
    \/ get_columns_and_constraints
    \/ get_schema_definition
    \/ query_table_names_and_types
    \/ query_view_names_and_types

SpecTranslate == InitTranslate /\ [][NextTranslate]_vars

-----------------------------------------------------------------------------
(* Properties of the schema-name translation (SpecTranslate) *)

REMOVE == "_remove_database_from_schema_name"
ADD == "_add_database_to_schema_name"
GET_RAW == "get_raw_database_schema_names"
Wrappers == {"get_columns_and_constraints", "get_schema_definition",
             "query_table_names_and_types", "query_view_names_and_types"}

\* positions i where call i+1 was made on the value call i returned
Pairs == {i \in 1..(Len(calls) - 1) : calls[i].out.exc = "none"}

\* s is None, empty, or whitespace only
IsBlank(s) == s = NULL \/ strip(s) = <<>>

\* y = database + "." + rest
DottedPrefix(y) == y # NULL /\ startswith(y, database \o <<".">>)
Rest(y) == slice_from(y, Len(database) + 1)

\* C1 (as stated): with a database d selected, _remove_database_from_schema_name(s)
\* returns s unchanged when s does not start with d + ".", equals d, is empty or is
\* None, and otherwise returns s without its first len(d)+1 characters; with no
\* database selected it returns s unchanged. It never raises.
C1_RemoveContract ==
    \A i \in 1..Len(calls) :
        calls[i].op = REMOVE =>
            LET s == calls[i].arg IN
            calls[i].out =
                IF database = NULL \/ s = NULL \/ s = <<>> \/ s = database
                   \/ ~DottedPrefix(s)
                THEN Return(s)
                ELSE Return(slice_from(s, Len(database) + 1))

\* C2 (as stated): for every selected database d and every non-empty schema name s,
\* whitespace-only names included, remove(add(s)) = s.
C2_RoundTrip_Original ==
    \A i \in Pairs :
        (/\ database # NULL
         /\ calls[i].op = ADD /\ calls[i + 1].op = REMOVE
         /\ calls[i].arg # NULL /\ calls[i].arg # <<>>)
        => calls[i + 1].out = Return(calls[i].arg)

\* C2 (amended): for every selected database d and every schema name s that is not
\* blank (not None, not empty, not whitespace only), remove(add(s)) = s.
C2_RoundTrip ==
    \A i \in Pairs :
        (/\ database # NULL
         /\ calls[i].op = ADD /\ calls[i + 1].op = REMOVE
         /\ ~IsBlank(calls[i].arg))
        => calls[i + 1].out = Return(calls[i].arg)

\* a round trip of a non-blank name that itself begins with the database name
C2_Witness ==
    \E i \in Pairs :
        /\ database # NULL
        /\ calls[i].op = ADD /\ calls[i + 1].op = REMOVE
        /\ ~IsBlank(calls[i].arg)
        /\ startswith(calls[i].arg, database)
        /\ calls[i + 1].out = Return(calls[i].arg)

-----------------------------------------------------------------------------
(* Database discovery: get_database_names, set_inspector and the consumer  *)

\* the namespaces the engine may hold: "@t", "$i", "s.p", "s", "h", "m"
NsUniverse ==
    {<<"@", "t">>, <<"$", "i">>, <<"s", ".", "p">>, <<"s">>, <<"h">>, <<"m">>}

\* SCHEMATA holds each namespace once
DistinctSeqs(S, n) ==
    {q \in UNION {[1..k -> S] : k \in 0..n} :
        \A i, j \in 1..Len(q) : i # j => q[i] # q[j]}

\* a slip in the query: the test for a dot is dropped
get_databases_without_dot_test(row) ==
    /\ ~startswith(row, <<"@">>)
    /\ ~startswith(row, <<"$">>)

\* WHERE SCHEMA_NAME NOT LIKE '%.%' AND NOT STARTS_WITH(SCHEMA_NAME, '@')
\*   AND NOT STARTS_WITH(SCHEMA_NAME, '$')
DREMIO_GET_DATABASES(row) ==
    /\ ~LikeMatch(<<"%", ".", "%">>, row)
    /\ ~startswith(row, <<"@">>)
    /\ ~startswith(row, <<"$">>)

get_configured_database == NULL

\* self.context.get().database_service
database_service == <<"v">>

\* fqn.build(metadata, entity_type=Database, service_name, database_name)
fqn_build(service_name, database_name) == service_name \o <<".">> \o database_name

\* filter_by_database(pattern, name): TRUE when the name is filtered out. The
\* includes and excludes of the pattern are modelled as sets of matched names.
filter_by_database(pattern, name) ==
    \/ pattern.includes # {} /\ name \notin pattern.includes
    \/ name \in pattern.excludes

FilterPatterns ==
    [includes : {{}, {<<"s">>}, {<<"v", ".", "s">>}},
     excludes : {{}, {<<"h">>}, {<<"v", ".", "h">>}}]

LogRecord(level, event, database_name) ==
    [level |-> level, event |-> event, database |-> database_name]

\* a slip: the caches of the previous engine are kept
set_inspector_keeps_caches(database_name, ok) ==
    IF ok
    THEN /\ engine' = [id |-> engine.id + 1, database_name |-> database_name]
         /\ database' = database_name
         /\ UNCHANGED <<connection_map, inspector_map>>
    ELSE UNCHANGED instanceVars

\* set_inspector(database_name); ok is FALSE when deepcopy or get_connection
\* raises, which happens before anything is assigned. The Engine object records
\* which call built it.
set_inspector(database_name, ok) ==
    IF ok
    THEN /\ engine' = [id |-> engine.id + 1, database_name |-> database_name]
         /\ database' = database_name
         /\ connection_map' = {}
         /\ inspector_map' = {}
    ELSE UNCHANGED instanceVars

\* the filter's argument for one candidate
FilterArg(new_database) ==
    IF useFqnForFiltering
    THEN fqn_build(database_service, new_database)
    ELSE new_database

\* get_database_names is called: no database is configured, so the generator
\* runs DREMIO_GET_DATABASES on the connection of the current engine.
Start ==
    /\ pc = "idle"
    /\ get_configured_database = NULL
    /\ rows' = SelectSeq(schemata, DREMIO_GET_DATABASES)
    /\ connection_map' = connection_map \cup {engine.id}
    /\ pc' = "loop"
    /\ UNCHANGED <<database, engine, inspector_map, schemata, filterPattern,
                   useFqnForFiltering, yielded, status_filtered, status_warnings,
                   log, gen_exc, namesVars, urlVars>>

\* the candidate is filtered out: reported on self.status, then skipped
FilteredOut ==
    /\ pc = "loop" /\ rows # <<>>
    /\ filter_by_database(filterPattern, FilterArg(Head(rows)))
    /\ status_filtered' =
           Append(status_filtered,
                  [name |-> fqn_build(database_service, Head(rows)),
                   reason |-> "Database Filtered Out"])
    /\ rows' = Tail(rows)
    /\ UNCHANGED <<instanceVars, schemata, filterPattern, useFqnForFiltering, pc,
                   yielded, status_warnings, log, gen_exc, namesVars, urlVars>>

\* set_inspector succeeds and the name is yielded
SwitchAndYield ==
    /\ pc = "loop" /\ rows # <<>>
    /\ ~filter_by_database(filterPattern, FilterArg(Head(rows)))
    /\ set_inspector(Head(rows), TRUE)
    /\ log' = Append(log, LogRecord("info", "ingesting", Head(rows)))
    /\ yielded' = Append(yielded, Head(rows))
    /\ rows' = Tail(rows)
    /\ pc' = "yielded"
    /\ UNCHANGED <<schemata, filterPattern, useFqnForFiltering, status_filtered,
                   status_warnings, gen_exc, namesVars, urlVars>>

\* a slip: the exception of set_inspector is not caught
SwitchRaisesUncaught ==
    /\ pc = "loop" /\ rows # <<>>
    /\ ~filter_by_database(filterPattern, FilterArg(Head(rows)))
    /\ set_inspector(Head(rows), FALSE)
    /\ log' = Append(log, LogRecord("info", "ingesting", Head(rows)))
    /\ gen_exc' = "Exception"
    /\ pc' = "done"
    /\ UNCHANGED <<schemata, filterPattern, useFqnForFiltering, rows, yielded,
                   status_filtered, status_warnings, namesVars, urlVars>>

\* set_inspector raises: the except clause logs the traceback and a warning,
\* and the loop goes on with the next candidate
SwitchRaises ==
    /\ pc = "loop" /\ rows # <<>>
    /\ ~filter_by_database(filterPattern, FilterArg(Head(rows)))
    /\ set_inspector(Head(rows), FALSE)
    /\ log' = log \o <<LogRecord("info", "ingesting", Head(rows)),
                       LogRecord("error", "traceback", Head(rows)),
                       LogRecord("warning", "error_processing", Head(rows))>>
    /\ rows' = Tail(rows)
    /\ UNCHANGED <<schemata, filterPattern, useFqnForFiltering, pc, yielded,
                   status_filtered, status_warnings, gen_exc, namesVars, urlVars>>

\* the rows are exhausted: the generator returns
Exhausted ==
    /\ pc = "loop" /\ rows = <<>>
    /\ pc' = "done"
    /\ UNCHANGED <<instanceVars, schemata, filterPattern, useFqnForFiltering, rows,
                   yielded, status_filtered, status_warnings, log, gen_exc,
                   namesVars, urlVars>>

\* the consumer asks for the next name
Resume ==
    /\ pc = "yielded"
    /\ pc' = "loop"
    /\ UNCHANGED <<instanceVars, schemata, filterPattern, useFqnForFiltering, rows,
                   yielded, status_filtered, status_warnings, log, gen_exc,
                   namesVars, urlVars>>

\* while it holds a name, the consumer opens the lazily cached connection
ConsumerConnection ==
    /\ pc = "yielded"
    /\ engine.id \notin connection_map
    /\ connection_map' = connection_map \cup {engine.id}
    /\ UNCHANGED <<database, engine, inspector_map, discVars, namesVars, urlVars>>

\* while it holds a name, the consumer builds the lazily cached inspector
ConsumerInspector ==
    /\ pc = "yielded"
    /\ engine.id \notin inspector_map
    /\ inspector_map' = inspector_map \cup {engine.id}
    /\ UNCHANGED <<database, engine, connection_map, discVars, namesVars, urlVars>>

InitDiscover ==
    /\ InitInstance
    /\ InitNames
    /\ InitUrl
    /\ schemata \in DistinctSeqs(NsUniverse, MaxSchemata)
    /\ filterPattern \in FilterPatterns
    /\ useFqnForFiltering \in BOOLEAN
    /\ pc = "idle"
    /\ rows = <<>>
    /\ yielded = <<>>
    /\ status_filtered = <<>>
    /\ status_warnings = <<>>
    /\ log = <<>>
    /\ gen_exc = "none"

NextDiscover ==
    \/ Start
    \/ FilteredOut
    \/ SwitchAndYield
    \/ SwitchRaises
    \/ Exhausted
    \/ Resume
    \/ ConsumerConnection
    \/ ConsumerInspector

SpecDiscover == InitDiscover /\ [][NextDiscover]_vars

-----------------------------------------------------------------------------
(* Properties of database discovery (SpecDiscover) *)

\* the namespace contains a dot or starts with "@" or "$"
IsSystem(n) ==
    \/ \E i \in 1..Len(n) : n[i] = "."
    \/ n # <<>> /\ n[1] \in {"@", "$"}

\* the database filter rejects the namespace
Rejected(n) == filter_by_database(filterPattern, FilterArg(n))

RejectedCandidate(n) == ~IsSystem(n) /\ Rejected(n)

Survives(n) == ~IsSystem(n) /\ ~Rejected(n)

\* the databases whose switch raised
Failed == {log[i].database : i \in {j \in 1..Len(log) : log[j].level = "warning"}}

SurvivesAndSwitches(n) == Survives(n) /\ n \notin Failed

IsIngesting(r) == r.event = "ingesting"

\* the arguments of the set_inspector calls, in order
Switched ==
    LET q == SelectSeq(log, IsIngesting) IN [i \in 1..Len(q) |-> q[i].database]

\* the names of the "filtered" status events, in order
Reported == [i \in 1..Len(status_filtered) |-> status_filtered[i].name]

Fqns(q) == [i \in 1..Len(q) |-> fqn_build(database_service, q[i])]

Range(q) == {q[i] : i \in 1..Len(q)}

\* C5: in a run with no configured database in which every switch succeeds, a
\* namespace with a dot or a leading "@" or "$" is neither yielded nor reported; any
\* other namespace the filter rejects is reported once as filtered, never yielded
\* and never switched to; every remaining namespace is yielded once, in engine order.
C5_Partition ==
    Failed = {} =>
        /\ \A n \in Range(yielded) : Survives(n)
        /\ \A n \in Range(Switched) : Survives(n)
        /\ \A n \in Range(schemata) :
               IsSystem(n) =>
                   fqn_build(database_service, n) \notin Range(Reported)
        /\ pc = "done" =>
               /\ yielded = SelectSeq(schemata, Survives)
               /\ Reported = Fqns(SelectSeq(schemata, RejectedCandidate))
               /\ Switched = yielded

\* a finished run over a system namespace, a rejected one and two yielded ones
C5_Witness ==
    /\ pc = "done" /\ Failed = {}
    /\ \E n \in Range(schemata) : IsSystem(n)
    /\ Len(status_filtered) = 1
    /\ Len(yielded) = 2

\* C6: a set_inspector that raises for one candidate keeps that candidate from
\* being yielded and does not leave get_database_names; the later candidates are
\* still filtered and switched to, so the yielded names are exactly the unfiltered
\* candidates whose switch succeeded.
C6_FailureIsolation ==
    /\ gen_exc = "none"
    /\ \A n \in Failed : n \notin Range(yielded)
    /\ pc = "done" =>
           /\ yielded = SelectSeq(schemata, SurvivesAndSwitches)
           /\ Switched = SelectSeq(schemata, Survives)
           /\ Reported = Fqns(SelectSeq(schemata, RejectedCandidate))

\* a finished run in which a switch raised and a later candidate was yielded
C6_Witness ==
    /\ pc = "done"
    /\ \E i \in 1..Len(Switched) :
           /\ Switched[i] \in Failed
           /\ \E j \in (i + 1)..Len(Switched) : Switched[j] \in Range(yielded)

\* C7 (as stated): every switch that raises produces a "warning" status event for
\* that database, as every filtered-out database produces a "filtered" event.
C7_WarningEvent ==
    /\ \A n \in Failed :
           \E i \in 1..Len(status_warnings) :
               status_warnings[i].name \in {n, fqn_build(database_service, n)}
    /\ \A n \in Range(schemata) :
           (pc = "done" /\ RejectedCandidate(n)) =>
               fqn_build(database_service, n) \in Range(Reported)

\* the step is a set_inspector call that raised
SwitchRaised ==
    /\ Len(log') = Len(log) + 3
    /\ log'[Len(log')].level = "warning"

\* while the consumer holds a yielded name
HoldsSelected ==
    pc = "yielded" =>
        LET n == yielded[Len(yielded)] IN
        /\ database = n
        /\ engine.database_name = n
        /\ engine.id = Len(yielded)
        /\ connection_map \subseteq {engine.id}
        /\ inspector_map \subseteq {engine.id}

\* C8: whenever the consumer holds a yielded name n, self.database is n, the engine
\* is the one the set_inspector call for n built, and both caches hold nothing older
\* than that call; a switch that raises leaves database, engine and caches as they were.
C8_SwitchBeforeEnumerate ==
    /\ []HoldsSelected
    /\ [][SwitchRaised => UNCHANGED instanceVars]_vars

\* the consumer holds the second yielded name, after a failed switch, and has
\* opened a connection on the new engine
C8_Witness ==
    /\ pc = "yielded"
    /\ Len(yielded) = 2
    /\ Failed # {}
    /\ connection_map = {engine.id}
    /\ database = yielded[2]

-----------------------------------------------------------------------------
(* get_connection_url *)

\* Python values an option lookup can give: a str, a bool default, or None.
\* Each carries the text an f-string renders it as.
PyStr(s) == <<"str", s>>
PyBool(b) == <<"bool", IF b THEN "True" ELSE "False">>
PyNone == <<"NoneType", "None">>

\* bool(value)
Truthy(v) == (v[1] = "str" /\ v[2] # "") \/ v = PyBool(TRUE)

\* f'{value}'
Format(v) == v[2]

RequiredKeys == {"username", "password", "hostPort"}
HandledKeys ==
    RequiredKeys \cup {"UseEncryption", "disableCertificateVerification"}
PassThroughKeys == {"x", "y"}
OptionKeys == HandledKeys \cup PassThroughKeys

\* the option maps: any keys, each value empty or not
OptionMaps == UNION {[K -> {"", "v"}] : K \in SUBSET OptionKeys}

\* the orders in which a process may iterate a set of these strings (str hashes
\* are salted per process)
SetOrders ==
    {q \in [1..Cardinality(PassThroughKeys) -> PassThroughKeys] :
        \A i, j \in 1..Len(q) : i # j => q[i] # q[j]}

\* connection.connectionOptions.root.get(option_name)
OptionsGet(option_name) ==
    IF option_name \in DOMAIN connectionOptions
    THEN PyStr(connectionOptions[option_name])
    ELSE PyNone

\* a slip: only an absent option counts as missing, an empty one does not
get_option_none_only(option_name, default, expected) ==
    LET value == OptionsGet(option_name) IN
    IF value = PyNone
    THEN IF expected
         THEN RaiseWith("InvalidDremioConnectorException", option_name)
         ELSE Return(default)
    ELSE Return(value)

_get_option_or_else(option_name, default, expected) ==
    LET value == OptionsGet(option_name) IN
    IF ~Truthy(value)
    THEN IF expected
         THEN RaiseWith("InvalidDremioConnectorException", option_name)
         ELSE Return(default)
    ELSE Return(value)

\* set(connectionOptions.keys()) - {...}, in this process's iteration order
not_handled_options ==
    LET NotHandled(k) == k \in (DOMAIN connectionOptions) \ HandledKeys
    IN SelectSeq(set_order, NotHandled)

\* "&".join(parts), each part a sequence of tokens
RECURSIVE Join(_)
Join(parts) ==
    IF parts = <<>>
    THEN <<>>
    ELSE IF Len(parts) = 1
         THEN Head(parts)
         ELSE Head(parts) \o <<"&">> \o Join(Tail(parts))

\* the URL is the sequence of the pieces the f-strings concatenate
get_connection_url ==
    LET username == _get_option_or_else("username", PyNone, TRUE)
        password == _get_option_or_else("password", PyNone, TRUE)
        host_port == _get_option_or_else("hostPort", PyNone, TRUE)
        use_encryption ==
            _get_option_or_else("UseEncryption", PyBool(FALSE), FALSE)
        disable_certificate_verification ==
            _get_option_or_else("disableCertificateVerification", PyBool(TRUE), FALSE)
        additional_options ==
            Join(<<
                   <<"UseEncryption", "=", Format(use_encryption.value)>>,
                   <<"disableCertificateVerification", "=",
                     Format(disable_certificate_verification.value)>>
                 >> \o
                 [i \in 1..Len(not_handled_options) |->
                     <<not_handled_options[i], "=",
                       Format(_get_option_or_else(not_handled_options[i],
                                                  PyNone, FALSE).value)>>])
    IN  IF username.exc # "none" THEN username
        ELSE IF password.exc # "none" THEN password
        ELSE IF host_port.exc # "none" THEN host_port
        ELSE Return(<<"dremio+flight", "://",
                      Format(username.value), ":", Format(password.value),
                      "@", Format(host_port.value), "/?">>
                    \o additional_options)

\* get_connection_url(connection) is called
GetConnectionUrl ==
    /\ url_result' = get_connection_url
    /\ url_history' = url_history \cup {get_connection_url}
    /\ UNCHANGED <<connectionOptions, set_order, instanceVars, namesVars, discVars>>

\* the ingestion runs again in a new process, with the same option map
NewProcess ==
    /\ url_result.exc # "not_called"
    /\ set_order' \in SetOrders \ {set_order}
    /\ url_result' = [exc |-> "not_called", value |-> NULL]
    /\ UNCHANGED <<connectionOptions, url_history, instanceVars, namesVars,
                   discVars>>

InitResolve ==
    /\ InitInstance
    /\ InitNames
    /\ InitDiscovery
    /\ connectionOptions \in OptionMaps
    /\ set_order \in SetOrders
    /\ url_result = [exc |-> "not_called", value |-> NULL]
    /\ url_history = {}

NextResolve ==
    \/ GetConnectionUrl
    \/ NewProcess

SpecResolve == InitResolve /\ [][NextResolve]_vars

-----------------------------------------------------------------------------
(* Properties of get_connection_url (SpecResolve) *)

\* the required options that are absent or empty
Missing ==
    {k \in RequiredKeys :
        k \notin DOMAIN connectionOptions \/ connectionOptions[k] = ""}

Called == url_result.exc # "not_called"

\* C9: get_connection_url raises InvalidDremioConnectorException naming a missing
\* option, and returns no URL, whenever username, password or hostPort is absent or
\* empty; with all three present and non-empty it raises nothing, whatever the
\* other options are.
C9_MissingOption ==
    Called =>
        IF Missing # {}
        THEN /\ url_result.exc = "InvalidDremioConnectorException"
             /\ url_result.value \in Missing
        ELSE url_result.exc = "none"

\* hostPort alone is empty, and the call raised naming it
C9_Witness ==
    /\ Called
    /\ Missing = {"hostPort"}
    /\ "hostPort" \in DOMAIN connectionOptions
    /\ url_result = RaiseWith("InvalidDremioConnectorException", "hostPort")

\* the URLs returned so far
Urls == {r.value : r \in {h \in url_history : h.exc = "none"}}

\* the keys of the query string of a URL, in order
QueryKeys(u) ==
    LET IsKey(i) == i > 8 /\ (i - 9) % 4 = 0
        idx == {i \in 1..Len(u) : IsKey(i)}
    IN  [n \in 1..Cardinality(idx) |-> u[9 + 4 * (n - 1)]]

\* C10 (as stated): the query string lists UseEncryption, then
\* disableCertificateVerification, then one entry per other option key, and two
\* calls with the same option map produce the same URL.
C10_StableQuery ==
    /\ \A u \in Urls :
           LET keys == QueryKeys(u) IN
           /\ keys[1] = "UseEncryption"
           /\ keys[2] = "disableCertificateVerification"
           /\ Len(keys) = 2 + Cardinality((DOMAIN connectionOptions) \ HandledKeys)
           /\ {keys[i] : i \in 3..Len(keys)} = (DOMAIN connectionOptions) \ HandledKeys
    /\ Cardinality(Urls) <= 1

====
